---- MODULE Spec2Model ----
(***************************************************************************)
(* Model of src/demo.cpp: the frame loop of main(), the two culling        *)
(* compute shaders (cull_microbatch_cs_source, cull_instanced_cs_source),  *)
(* the vertex stage (render_vs_source) and the GL objects they share: the  *)
(* atomic counter buffer, the indirect command buffer, the visible-id      *)
(* buffer, the program uniforms and the indexed buffer bindings.           *)
(*                                                                         *)
(* One dispatch is a set of concurrent work-items; each work-item is a     *)
(* small process whose shared-memory accesses (command initialisation by   *)
(* work-item 0, atomic counter increment, slot write) are separate steps,  *)
(* so every interleaving of the work-items is explored.  The host is one   *)
(* sequential process whose position is pc.                                *)
(*                                                                         *)
(* Coordinates are fixed point with ONE = 1.0.  Buffers are flat arrays of *)
(* 32-bit words, as the GL calls address them.  The GL implementation is   *)
(* part of the run: typeChecked says whether it enforces the type match    *)
(* between a glUniform* call and the uniform it loads.                     *)
(*                                                                         *)
(* Specifications: Spec is the frame loop entered with three linked        *)
(* programs; SpecKeep also keeps one presented frame for comparison with   *)
(* later ones; SpecStartup is main() from the creation of the programs to  *)
(* the first frame; SpecTyped is the frame loop in which an element count  *)
(* of 0 can be entered; SpecFair is the frame loop under fair scheduling   *)
(* of the host thread and the work-items.                                  *)
(***************************************************************************)
EXTENDS Integers, Sequences, FiniteSets, TLC

(* ---- sizes (scaled down from the source; see each comment) ---- *)

\* const unsigned int MAX_ELEMENTS = 1000000 in the source; buffer capacity.
MAX_ELEMENTS == 3

\* layout(local_size_x = 256) in the source: work-items per work group.
LOCAL_SIZE_X == 2

\* lower end of ImGui::SliderInt("Element Count", ..., 1000, MAX_ELEMENTS).
SliderMin == 1

\* int element_count = 100000 in the source.
InitialElementCount == 2

\* commands[index].count = 6 / command.count = 6: a quad has 6 indices.
QuadIndexCount == 6

\* sizeof(GLuint) * 5: words per DrawElementsIndirectCommand.
CommandWords == 5

\* sizeof(GLuint), the unit of the byte offsets given to glCopyBufferSubData.
SizeofGLuint == 4

\* fixed-point representation of 1.0
ONE == 10

(* ---- enum RenderMode ---- *)
MICRO_BATCH_INDIRECT == 0
INSTANCED_INDIRECT == 1
RenderMode == {MICRO_BATCH_INDIRECT, INSTANCED_INDIRECT}

(* ---- struct DrawElementsIndirectCommand: word offset of each field ---- *)
OffCount == 0
OffInstanceCount == 1
OffFirstIndex == 2
OffBaseVertex == 3
OffBaseInstance == 4

Slots == 0 .. (MAX_ELEMENTS - 1)
CommandBufferWords == 0 .. (MAX_ELEMENTS * CommandWords - 1)

\* Element positions (fixed point): the centre, a point far outside, a
\* point inside, a point on the inclusive boundary, and a point outside in
\* x only.
Positions == << <<0, 0>>, <<2 * ONE, 2 * ONE>>, <<-1, 1>>, <<ONE, -ONE>>, <<-ONE - 1, 0>> >>

\* positions drawn as the source draws them, from [-1, 1) x [-1, 1)
PositionsInRange == << <<0, 0>>, <<-1, 1>>, <<-ONE, ONE - 1>> >>

\* The contents the Instance Store may have: every rotation of Positions
\* over the element indices, and a store whose positions all lie in the
\* range of pos_dist.
InstanceStores ==
    { [ s \in Slots |-> Positions[((s + k) % Len(Positions)) + 1] ] :
        k \in 0 .. (Len(Positions) - 1) }
    \cup { [ s \in Slots |-> PositionsInRange[(s % Len(PositionsInRange)) + 1] ] }

\* glBufferData(..., nullptr, ...) leaves the store undefined: every word of
\* such a buffer starts with one of these values.
UndefinedWords == {0, 9}

VARIABLES
    instances,        \* instance_ssbo: element index -> position (size and colour go with the index)
    typeChecked,      \* TRUE iff the GL implementation rejects glUniform1i on a uint uniform
    current_mode,     \* RenderMode current_mode
    element_count,    \* int element_count
    gpu_draw_calls,   \* unsigned int gpu_draw_calls
    counter_buffer,   \* the one GLuint of counter_buffer
    command_buffer,   \* command_buffer as 32-bit words
    visible_id_ssbo,  \* visible_id_ssbo as 32-bit words
    uniforms,         \* program -> uniform name -> value
    ssbo_binding1,    \* buffer bound at GL_SHADER_STORAGE_BUFFER index 1
    pc,               \* position of the host in the frame loop
    program,          \* culling program of the dispatch in flight
    wi,               \* work-items of the dispatch in flight: gid -> [pc, index]
    classified,       \* gids whose is_visible evaluated true in this dispatch
    written,          \* output slot -> number of writes to it in this dispatch
    drawn,            \* instance_id resolved by the vertex stage for each instance drawn this frame
    ref,              \* an earlier dispatch kept for comparison: its inputs and its result
    linked,           \* the programs whose glLinkProgram succeeded
    overlay_draw_commands, \* the number ImGui::Text("GPU Draw Commands: %u", ...) put in this frame's overlay
    fresh             \* what of {counter, command, mode flag} the host or work-item 0 has written in this frame

vars == << instances, typeChecked, current_mode, element_count, gpu_draw_calls,
           counter_buffer, command_buffer, visible_id_ssbo, uniforms,
           ssbo_binding1, pc, program, wi, classified, written, drawn, ref,
           linked, overlay_draw_commands, fresh >>

(* ------------------------------------------------------------------ *)
(* Pure parts                                                         *)
(* ------------------------------------------------------------------ *)

\* glm::ortho(left, right, bottom, top, zNear, zFar) as m[row][col]; the
\* arguments are whole units and divide exactly for the values main() passes.
Ortho(left, right, bottom, top, zNear, zFar) ==
    << << 2 \div (right - left), 0, 0, (0 - (right + left)) \div (right - left) >>,
       << 0, 2 \div (top - bottom), 0, (0 - (top + bottom)) \div (top - bottom) >>,
       << 0, 0, (0 - 2) \div (zFar - zNear), (0 - (zFar + zNear)) \div (zFar - zNear) >>,
       << 0, 0, 0, 1 >> >>

\* glm::mat4 projection = glm::ortho(-1.0f, 1.0f, -1.0f, 1.0f, -1.0f, 1.0f)
projection == Ortho(-1, 1, -1, 1, -1, 1)

\* vec4 clip_pos = projection * vec4(inst.position, 0.0, 1.0)
ClipPos(proj, position) ==
    LET v == << position[1], position[2], 0, ONE >>
    IN  [ r \in 1 .. 4 |-> proj[r][1] * v[1] + proj[r][2] * v[2]
                           + proj[r][3] * v[3] + proj[r][4] * v[4] ]

\* is_visible: clip x and y within [-w, w], bounds included
IsVisible(clip_pos) ==
    /\ clip_pos[1] >= 0 - clip_pos[4] /\ clip_pos[1] <= clip_pos[4]
    /\ clip_pos[2] >= 0 - clip_pos[4] /\ clip_pos[2] <= clip_pos[4]

\* if (gid >= total_element_count) return;
Skipped(gid, total) == gid >= total

\* unsigned int num_groups = (element_count + 255) / 256 (a mutant rounds
\* up by adding a group to the quotient)
NumGroupsPlusOne(n) == (n \div LOCAL_SIZE_X) + 1

NumGroups(n) == (n + (LOCAL_SIZE_X - 1)) \div LOCAL_SIZE_X

\* glDispatchCompute(num_groups, 1, 1): the global invocation ids
GlobalInvocationIDs(n) == 0 .. (NumGroups(n) * LOCAL_SIZE_X - 1)

\* atomicCounterIncrement(visible_count): the value left in the counter; the
\* call returns the value before it.  (a mutant loses the increment, as a
\* non-atomic read-then-write would under contention)
AtomicCounterIncrementLost(c) == c

AtomicCounterIncrement(c) == c + 1

\* commands[index] / visible_ids[index]: the slot a visible element is
\* written at is the value the increment returned (a mutant writes at the
\* element's own index, as an uncompacted culler would)
SlotWrittenAtGid(index, gid) == gid

SlotWritten(index, gid) == index

\* glBufferSubData(target, 0, sizeof(GLuint), &data) on a one-word buffer
\* (a mutant drops the upload)
BufferSubDataDropped(buf, data) == buf

BufferSubData(buf, data) == data

\* the five fields written at commands[index] by the micro-batch culler
\* (a mutant stores the slot instead of the element index)
MicroBatchCommandSlot(index, gid) == << QuadIndexCount, 1, 0, 0, index >>

MicroBatchCommand(index, gid) == << QuadIndexCount, 1, 0, 0, gid >>

\* the five fields written to `command` by work-item 0 of the instanced culler
InstancedCommand == << QuadIndexCount, 0, 0, 0, 0 >>

\* store `words` into a word-addressed buffer starting at word `base`
StoreWords(buf, base, words) ==
    [ w \in DOMAIN buf |->
        IF w >= base /\ w < base + Len(words) THEN words[w - base + 1] ELSE buf[w] ]

\* a word read past the end of a buffer
OutOfBounds == -1

WordAt(buf, k) == IF k \in DOMAIN buf THEN buf[k] ELSE OutOfBounds

\* DrawElementsIndirectCommand number d of a word-addressed buffer
CommandAt(buf, d) ==
    [ count         |-> WordAt(buf, d * CommandWords + OffCount),
      instanceCount |-> WordAt(buf, d * CommandWords + OffInstanceCount),
      firstIndex    |-> WordAt(buf, d * CommandWords + OffFirstIndex),
      baseVertex    |-> WordAt(buf, d * CommandWords + OffBaseVertex),
      baseInstance  |-> WordAt(buf, d * CommandWords + OffBaseInstance) ]

(* ---- uniforms ---- *)

\* the active uniforms of each linked program, in location order, with
\* their GLSL types (projection is uploaded alongside and is the same
\* matrix every frame)
ActiveUniforms ==
    [ cull_microbatch_program |-> << [ name |-> "total_element_count", type |-> "uint" ] >>,
      cull_instanced_program  |-> << [ name |-> "total_element_count", type |-> "uint" ] >>,
      render_program          |-> << [ name |-> "is_instanced_mode",   type |-> "bool" ] >> ]

\* glGetUniformLocation: -1 when the program has no active uniform of that name
GetUniformLocation(prog, name) ==
    IF \E i \in DOMAIN ActiveUniforms[prog] : ActiveUniforms[prog][i].name = name
    THEN (CHOOSE i \in DOMAIN ActiveUniforms[prog] : ActiveUniforms[prog][i].name = name) - 1
    ELSE -1

\* glUniform1i(location, v) with `prog` in use: location -1 is silently
\* ignored; a bool uniform accepts any of the Uniform1{i,ui,f} calls; on a
\* uint uniform the call is a type mismatch, which the GL specification
\* makes a GL_INVALID_OPERATION that leaves the uniform unchanged and which
\* permissive implementations accept.
Uniform1i(u, prog, location, v) ==
    IF location = -1 THEN u
    ELSE IF ActiveUniforms[prog][location + 1].type = "uint" /\ typeChecked THEN u
    ELSE [ u EXCEPT ![prog][location + 1] = v ]

\* the value a shader of `prog` reads for its uniform `name`
UniformValue(u, prog, name) == u[prog][GetUniformLocation(prog, name) + 1]

(* ---- buffer copies and the vertex stage ---- *)

\* glCopyBufferSubData(read, write, readOffset, writeOffset, size): offsets
\* and size in bytes, buffers as words
CopyBufferSubData(readBuf, writeBuf, readOffset, writeOffset, size) ==
    [ w \in DOMAIN writeBuf |->
        IF w * SizeofGLuint >= writeOffset /\ w * SizeofGLuint < writeOffset + size
        THEN readBuf[(w * SizeofGLuint - writeOffset + readOffset) \div SizeofGLuint]
        ELSE writeBuf[w] ]

\* render_vs_source main: the element the vertex stage fetches for one
\* instance
ResolveInstanceId(flag, gl_InstanceID, gl_BaseInstance, visible_ids) ==
    IF flag # 0 THEN WordAt(visible_ids, gl_InstanceID) ELSE gl_BaseInstance

\* the instances one indirect command draws, in order: instance_id of each
DrawCommand(cmd, flag, visible_ids) ==
    IF cmd.count = 0 THEN << >>
    ELSE [ k \in 1 .. cmd.instanceCount |->
             ResolveInstanceId(flag, k - 1, cmd.baseInstance, visible_ids) ]

\* glMultiDrawElementsIndirect(..., indirect = 0, drawcount, stride = 0):
\* commands d .. drawcount-1, tightly packed
RECURSIVE MultiDrawElementsIndirect(_, _, _, _, _)
MultiDrawElementsIndirect(buf, d, drawcount, flag, visible_ids) ==
    IF d >= drawcount THEN << >>
    ELSE DrawCommand(CommandAt(buf, d), flag, visible_ids)
         \o MultiDrawElementsIndirect(buf, d + 1, drawcount, flag, visible_ids)

\* layout(std430, binding = 0) readonly buffer InstanceBuffer, bound by
\* glBindBufferBase(GL_SHADER_STORAGE_BUFFER, 0, instance_ssbo)
InstanceBinding == 0

\* layout(std430, binding = 1) writeonly buffer DrawCommandBuffer /
\* VisibleIDBuffer: the
\* storage binding the cullers write their output through (a mutant
\* writes through the binding of the Instance Store)
OutputBindingInstance == InstanceBinding

OutputBinding == 1

\* the buffer object bound at an index of GL_SHADER_STORAGE_BUFFER
StorageBinding(index) ==
    IF index = InstanceBinding THEN "instance_ssbo" ELSE ssbo_binding1

\* the buffer the shaders see as binding 1 of GL_SHADER_STORAGE_BUFFER
Binding1 ==
    IF ssbo_binding1 = "visible_id_ssbo" THEN visible_id_ssbo ELSE command_buffer

CullProgram(mode) ==
    IF mode = MICRO_BATCH_INDIRECT THEN "cull_microbatch_program"
    ELSE "cull_instanced_program"

None == [ none |-> TRUE ]

\* cull_microbatch_program, cull_instanced_program, render_program
Programs == DOMAIN ActiveUniforms

NoWrites == [ s \in Slots |-> 0 ]

(* ------------------------------------------------------------------ *)
(* Initial state: after buffer creation and program linking            *)
(* ------------------------------------------------------------------ *)

Init ==
    /\ instances \in InstanceStores
    /\ typeChecked \in BOOLEAN
    /\ current_mode = MICRO_BATCH_INDIRECT
    /\ element_count = InitialElementCount
    /\ gpu_draw_calls = 0
    /\ \E g \in UndefinedWords :
         /\ counter_buffer = g
         /\ command_buffer = [ w \in CommandBufferWords |-> g ]
         /\ visible_id_ssbo = [ w \in Slots |-> g ]
    /\ uniforms = [ p \in DOMAIN ActiveUniforms |->
                     [ i \in DOMAIN ActiveUniforms[p] |-> 0 ] ]
    /\ ssbo_binding1 = "none"
    /\ pc = "ui"
    /\ program = "none"
    /\ wi = << >>
    /\ classified = {}
    /\ written = NoWrites
    /\ drawn = << >>
    /\ ref = None
    /\ linked = Programs
    /\ overlay_draw_commands = None
    /\ fresh = {}

(* ------------------------------------------------------------------ *)
(* Host: the frame loop of main()                                     *)
(* ------------------------------------------------------------------ *)

\* while (!glfwWindowShouldClose(window)): the window was closed
Close ==
    /\ pc = "ui"
    /\ pc' = "exit"
    /\ UNCHANGED << overlay_draw_commands, fresh >>
    /\ UNCHANGED << instances, typeChecked, linked, current_mode, element_count,
                    gpu_draw_calls, counter_buffer, command_buffer,
                    visible_id_ssbo, uniforms, ssbo_binding1, program, wi,
                    classified, written, drawn, ref >>

\* glfwPollEvents, glClear and the UI: the radio buttons and the slider
\* may change current_mode and element_count
UI ==
    /\ pc = "ui"
    /\ \E m \in RenderMode : current_mode' = m
    /\ \E n \in SliderMin .. MAX_ELEMENTS : element_count' = n
    /\ pc' = "reset"
    /\ overlay_draw_commands' = gpu_draw_calls
    /\ UNCHANGED fresh
    /\ UNCHANGED << instances, typeChecked, linked, gpu_draw_calls, counter_buffer,
                    command_buffer, visible_id_ssbo, uniforms, ssbo_binding1,
                    program, wi, classified, written, drawn, ref >>

\* glBufferSubData(GL_ATOMIC_COUNTER_BUFFER, 0, sizeof(GLuint), &zero)
ResetCounter ==
    /\ pc = "reset"
    /\ counter_buffer' = BufferSubData(counter_buffer, 0)
    /\ pc' = "dispatch"
    /\ fresh' = fresh \cup { "counter" }
    /\ UNCHANGED overlay_draw_commands
    /\ UNCHANGED << instances, typeChecked, linked, current_mode, element_count,
                    gpu_draw_calls, command_buffer, visible_id_ssbo, uniforms,
                    ssbo_binding1, program, wi, classified, written, drawn, ref >>

\* bindings, glUseProgram, uniform upload and glDispatchCompute of the
\* culling program of the current mode.  counter_buffer is bound at the
\* atomic-counter index the program declares (2 or 3) and, in instanced
\* mode, command_buffer at storage index 2: the cullers reach the counter
\* and `command` through them, so only storage index 1 is kept as state.
Dispatch ==
    /\ pc = "dispatch"
    /\ LET prog == CullProgram(current_mode) IN
         /\ program' = prog
         /\ uniforms' = Uniform1i(uniforms, prog,
                                  GetUniformLocation(prog, "total_element_count"),
                                  element_count)
    /\ ssbo_binding1' = IF current_mode = MICRO_BATCH_INDIRECT
                        THEN "command_buffer" ELSE "visible_id_ssbo"
    /\ wi' = [ g \in GlobalInvocationIDs(element_count) |->
                 [ pc    |-> IF current_mode = INSTANCED_INDIRECT /\ g = 0
                             THEN "init" ELSE "test",
                   index |-> 0 ] ]
    /\ classified' = {}
    /\ written' = NoWrites
    /\ pc' = "cull"
    /\ UNCHANGED << overlay_draw_commands, fresh >>
    /\ UNCHANGED << instances, typeChecked, linked, current_mode, element_count,
                    gpu_draw_calls, counter_buffer, command_buffer,
                    visible_id_ssbo, drawn, ref >>

(* ------------------------------------------------------------------ *)
(* Device: the work-items of the dispatch in flight                    *)
(* ------------------------------------------------------------------ *)

\* cull_instanced_cs_source: if (gl_GlobalInvocationID.x == 0) { command = ... }
InitCommand(g) ==
    /\ pc = "cull"
    /\ wi[g].pc = "init"
    /\ command_buffer' = StoreWords(command_buffer, 0, InstancedCommand)
    /\ wi' = [ wi EXCEPT ![g].pc = "test" ]
    /\ fresh' = fresh \cup { "command" }
    /\ UNCHANGED overlay_draw_commands
    /\ UNCHANGED << instances, typeChecked, linked, current_mode, element_count,
                    gpu_draw_calls, counter_buffer, visible_id_ssbo, uniforms,
                    ssbo_binding1, pc, program, classified, written, drawn, ref >>

\* both cullers: the early return, the frustum test and, for a visible
\* element, the atomic increment that hands out its slot
TestElement(g) ==
    /\ pc = "cull"
    /\ wi[g].pc = "test"
    /\ IF Skipped(g, UniformValue(uniforms, program, "total_element_count"))
       THEN /\ wi' = [ wi EXCEPT ![g].pc = "done" ]
            /\ UNCHANGED << counter_buffer, classified >>
       ELSE IF IsVisible(ClipPos(projection, instances[g]))
       THEN /\ wi' = [ wi EXCEPT ![g] = [ pc |-> "write", index |-> counter_buffer ] ]
            /\ counter_buffer' = AtomicCounterIncrement(counter_buffer)
            /\ classified' = classified \cup {g}
       ELSE /\ wi' = [ wi EXCEPT ![g].pc = "done" ]
            /\ UNCHANGED << counter_buffer, classified >>
    /\ UNCHANGED << overlay_draw_commands, fresh >>
    /\ UNCHANGED << instances, typeChecked, linked, current_mode, element_count,
                    gpu_draw_calls, command_buffer, visible_id_ssbo, uniforms,
                    ssbo_binding1, pc, program, written, drawn, ref >>

\* the write at the slot obtained, through storage binding 1:
\* commands[index] = {6, 1, 0, 0, gid} in the micro-batch culler (its five
\* stores go to a slot no other work-item or command touches during the
\* dispatch and are one step here), visible_ids[index] = gid in the
\* instanced one.  Only a write through binding 0 would reach instance_ssbo.
WriteSlot(g) ==
    /\ pc = "cull"
    /\ wi[g].pc = "write"
    /\ LET slot == SlotWritten(wi[g].index, g) IN
         /\ IF StorageBinding(OutputBinding) = "instance_ssbo"
            THEN /\ instances' = [ instances EXCEPT ![slot] = << g, g >> ]
                 /\ UNCHANGED << command_buffer, visible_id_ssbo >>
            ELSE IF program = "cull_microbatch_program"
            THEN /\ command_buffer' = StoreWords(command_buffer, slot * CommandWords,
                                                 MicroBatchCommand(wi[g].index, g))
                 /\ UNCHANGED << visible_id_ssbo, instances >>
            ELSE /\ visible_id_ssbo' = StoreWords(visible_id_ssbo, slot, << g >>)
                 /\ UNCHANGED << command_buffer, instances >>
         /\ written' = [ written EXCEPT ![slot] = @ + 1 ]
    /\ wi' = [ wi EXCEPT ![g].pc = "done" ]
    /\ UNCHANGED << overlay_draw_commands, fresh >>
    /\ UNCHANGED << typeChecked, linked, current_mode, element_count,
                    gpu_draw_calls, counter_buffer, uniforms, ssbo_binding1, pc,
                    program, classified, drawn, ref >>

WorkItem == \E g \in DOMAIN wi : InitCommand(g) \/ TestElement(g) \/ WriteSlot(g)

(* ------------------------------------------------------------------ *)
(* Host: barrier, draw, overlay, present                               *)
(* ------------------------------------------------------------------ *)

\* the element indices the dispatch left in its output: baseInstance of
\* commands [0, counter) or visible_ids [0, counter)
OutputIds ==
    IF program = "cull_microbatch_program"
    THEN { CommandAt(command_buffer, s).baseInstance :
             s \in { t \in Slots : t < counter_buffer } }
    ELSE { visible_id_ssbo[s] : s \in { t \in Slots : t < counter_buffer } }

\* what the barrier orders the later commands after: every work-item of
\* the dispatch has finished (a mutant barrier orders nothing)
AllDoneUnordered == TRUE

\* (another mutant waits for the counter to reach the element count, as a
\* host polling for one result per element would)
AllDoneByCount == counter_buffer = element_count

AllDone == \A g \in DOMAIN wi : wi[g].pc = "done"

\* glMemoryBarrier(COMMAND | SHADER_STORAGE | ATOMIC_COUNTER): what follows
\* it in the command stream sees the completed dispatch
MemoryBarrier ==
    /\ pc = "cull"
    /\ AllDone
    /\ pc' = "render"
    /\ UNCHANGED ref
    /\ UNCHANGED << overlay_draw_commands, fresh >>
    /\ UNCHANGED << instances, typeChecked, linked, current_mode, element_count,
                    gpu_draw_calls, counter_buffer, command_buffer,
                    visible_id_ssbo, uniforms, ssbo_binding1, program, wi,
                    classified, written, drawn >>

\* the uniform name each branch of the draw stage passes to
\* glGetUniformLocation(render_program, ...)
ModeFlagName(mode) ==
    IF mode = MICRO_BATCH_INDIRECT THEN "is_instanced_mode" ELSE "is__instanced_mode"

\* glUseProgram(render_program), the mode flag upload and, in instanced
\* mode, the binding of visible_id_ssbo at index 1
RenderSetup ==
    /\ pc = "render"
    /\ uniforms' = Uniform1i(uniforms, "render_program",
                             GetUniformLocation("render_program", ModeFlagName(current_mode)),
                             IF current_mode = MICRO_BATCH_INDIRECT THEN 0 ELSE 1)
    /\ ssbo_binding1' = IF current_mode = INSTANCED_INDIRECT
                        THEN "visible_id_ssbo" ELSE ssbo_binding1
    /\ pc' = IF current_mode = MICRO_BATCH_INDIRECT THEN "readback" ELSE "patch"
    /\ fresh' = IF GetUniformLocation("render_program", ModeFlagName(current_mode)) = -1
                THEN fresh ELSE fresh \cup { "is_instanced_mode" }
    /\ UNCHANGED overlay_draw_commands
    /\ UNCHANGED << instances, typeChecked, linked, current_mode, element_count,
                    gpu_draw_calls, counter_buffer, command_buffer,
                    visible_id_ssbo, program, wi, classified, written, drawn, ref >>

\* glMapBufferRange of the counter: gpu_draw_calls = count_ptr[0]
ReadBack ==
    /\ pc = "readback"
    /\ gpu_draw_calls' = counter_buffer
    /\ pc' = "draw"
    /\ UNCHANGED << overlay_draw_commands, fresh >>
    /\ UNCHANGED << instances, typeChecked, linked, current_mode, element_count,
                    counter_buffer, command_buffer, visible_id_ssbo, uniforms,
                    ssbo_binding1, program, wi, classified, written, drawn, ref >>

\* byte offset in command_buffer that the counter is copied to (a mutant
\* copies to offset 0, the count field)
PatchWriteOffsetZero == OffCount * SizeofGLuint

PatchWriteOffset == SizeofGLuint

\* glCopyBufferSubData(counter_buffer -> command_buffer, 0, sizeof(GLuint), sizeof(GLuint))
PatchInstanceCount ==
    /\ pc = "patch"
    /\ command_buffer' = CopyBufferSubData([ w \in {0} |-> counter_buffer ],
                                           command_buffer, 0, PatchWriteOffset,
                                           SizeofGLuint)
    /\ pc' = "draw"
    /\ UNCHANGED << overlay_draw_commands, fresh >>
    /\ UNCHANGED << instances, typeChecked, linked, current_mode, element_count,
                    gpu_draw_calls, counter_buffer, visible_id_ssbo, uniforms,
                    ssbo_binding1, program, wi, classified, written, drawn, ref >>

\* glMultiDrawElementsIndirect(..., 0, gpu_draw_calls, 0) in micro-batch
\* mode; glDrawElementsIndirect(..., 0) and gpu_draw_calls = 1 in instanced
Draw ==
    /\ pc = "draw"
    /\ LET flag == UniformValue(uniforms, "render_program", "is_instanced_mode") IN
       IF current_mode = MICRO_BATCH_INDIRECT
       THEN /\ drawn' = MultiDrawElementsIndirect(command_buffer, 0, gpu_draw_calls,
                                                  flag, Binding1)
            /\ UNCHANGED gpu_draw_calls
       ELSE /\ drawn' = MultiDrawElementsIndirect(command_buffer, 0, 1, flag, Binding1)
            /\ gpu_draw_calls' = 1
    /\ pc' = "overlay"
    /\ UNCHANGED << overlay_draw_commands, fresh >>
    /\ UNCHANGED << instances, typeChecked, linked, current_mode, element_count,
                    counter_buffer, command_buffer, visible_id_ssbo, uniforms,
                    ssbo_binding1, program, wi, classified, written, ref >>

\* ImGui::Render and ImGui_ImplOpenGL3_RenderDrawData
RenderOverlay ==
    /\ pc = "overlay"
    /\ pc' = "swap"
    /\ UNCHANGED << overlay_draw_commands, fresh >>
    /\ UNCHANGED << instances, typeChecked, linked, current_mode, element_count,
                    gpu_draw_calls, counter_buffer, command_buffer,
                    visible_id_ssbo, uniforms, ssbo_binding1, program, wi,
                    classified, written, drawn, ref >>

\* glfwSwapBuffers: the frame is presented and the loop starts over
Present ==
    /\ pc = "swap"
    /\ pc' = "ui"
    /\ wi' = << >>
    /\ classified' = {}
    /\ written' = NoWrites
    /\ drawn' = << >>
    /\ fresh' = {}
    /\ UNCHANGED overlay_draw_commands
    /\ UNCHANGED << instances, typeChecked, linked, current_mode, element_count,
                    gpu_draw_calls, counter_buffer, command_buffer,
                    visible_id_ssbo, uniforms, ssbo_binding1, program, ref >>

Next ==
    \/ Close
    \/ UI
    \/ ResetCounter
    \/ Dispatch
    \/ WorkItem
    \/ MemoryBarrier
    \/ RenderSetup
    \/ ReadBack
    \/ PatchInstanceCount
    \/ Draw
    \/ RenderOverlay
    \/ Present

Spec == Init /\ [][Next]_vars

\* the elements drawn, with the number of times each was drawn
BagOfSeq(q) ==
    [ e \in { q[k] : k \in DOMAIN q } |-> Cardinality({ k \in DOMAIN q : q[k] = e }) ]

\* The same program, with one presented frame of the run kept in ref (its
\* mode and element count, the counter and output set its dispatch ended
\* with, and what it drew) so that later frames can be compared with it.
PresentKeep ==
    /\ pc = "swap"
    /\ ref = None
    /\ ref' = [ element_count |-> element_count, mode |-> current_mode,
                count |-> counter_buffer, visible |-> OutputIds,
                drawn |-> BagOfSeq(drawn) ]
    /\ pc' = "ui"
    /\ wi' = << >>
    /\ classified' = {}
    /\ written' = NoWrites
    /\ drawn' = << >>
    /\ fresh' = {}
    /\ UNCHANGED overlay_draw_commands
    /\ UNCHANGED << instances, typeChecked, linked, current_mode, element_count,
                    gpu_draw_calls, counter_buffer, command_buffer,
                    visible_id_ssbo, uniforms, ssbo_binding1, program >>

NextKeep == Next \/ PresentKeep

SpecKeep == Init /\ [][NextKeep]_vars

(* ------------------------------------------------------------------ *)
(* Start-up: main() from the creation of the programs to the first     *)
(* frame                                                               *)
(* ------------------------------------------------------------------ *)

\* main() after the buffers are allocated and before the three programs
\* are created
InitStartup ==
    /\ instances \in InstanceStores
    /\ typeChecked \in BOOLEAN
    /\ current_mode = MICRO_BATCH_INDIRECT
    /\ element_count = InitialElementCount
    /\ gpu_draw_calls = 0
    /\ \E g \in UndefinedWords :
         /\ counter_buffer = g
         /\ command_buffer = [ w \in CommandBufferWords |-> g ]
         /\ visible_id_ssbo = [ w \in Slots |-> g ]
    /\ uniforms = [ p \in DOMAIN ActiveUniforms |->
                     [ i \in DOMAIN ActiveUniforms[p] |-> 0 ] ]
    /\ ssbo_binding1 = "none"
    /\ pc = "create_programs"
    /\ program = "none"
    /\ wi = << >>
    /\ classified = {}
    /\ written = NoWrites
    /\ drawn = << >>
    /\ ref = None
    /\ linked = {}
    /\ overlay_draw_commands = None
    /\ fresh = {}

\* create_compute_program twice and create_shader_program once: each
\* compiles, attaches and links, and returns the program object whether or
\* not glCompileShader and glLinkProgram succeeded (neither lambda reads
\* GL_COMPILE_STATUS, GL_LINK_STATUS or an info log); main() then
\* initialises the loop variables and reaches the loop condition.
CreatePrograms ==
    /\ pc = "create_programs"
    /\ \E ok \in SUBSET Programs : linked' = ok
    /\ pc' = "ui"
    /\ UNCHANGED << instances, typeChecked, current_mode, element_count,
                    gpu_draw_calls, counter_buffer, command_buffer,
                    visible_id_ssbo, uniforms, ssbo_binding1, program, wi,
                    classified, written, drawn, ref, overlay_draw_commands,
                    fresh >>

\* Start-up followed by the loop condition and the UI block of the first
\* frame.  The GL commands a frame issues on a program that failed to link
\* are not part of this specification.
NextStartup == CreatePrograms \/ Close \/ UI

SpecStartup == InitStartup /\ [][NextStartup]_vars

(* ------------------------------------------------------------------ *)
(* The frame loop with an element count of zero                        *)
(* ------------------------------------------------------------------ *)

\* The bounds given to ImGui::SliderInt limit dragging; a value typed into
\* the slider (Ctrl+Click) is stored in element_count as typed, the call
\* passing no clamping flag.  The value below the range that the frame
\* loop is run with here is 0; values above MAX_ELEMENTS index past the
\* buffers and are not part of this specification.
TypedElementCounts == { 0 }

\* the UI block of a frame in which such a value is entered
UITyped ==
    /\ pc = "ui"
    /\ \E m \in RenderMode : current_mode' = m
    /\ \E n \in TypedElementCounts : element_count' = n
    /\ pc' = "reset"
    /\ overlay_draw_commands' = gpu_draw_calls
    /\ UNCHANGED << instances, typeChecked, linked, gpu_draw_calls, counter_buffer,
                    command_buffer, visible_id_ssbo, uniforms, ssbo_binding1,
                    program, wi, classified, written, drawn, ref, fresh >>

NextTyped == Next \/ UITyped

SpecTyped == Init /\ [][NextTyped]_vars

(* ------------------------------------------------------------------ *)
(* The frame loop under fair scheduling                                *)
(* ------------------------------------------------------------------ *)

\* the statements of the loop body after the UI block: the host thread
\* executes them one after the other
HostStep ==
    \/ ResetCounter
    \/ Dispatch
    \/ MemoryBarrier
    \/ RenderSetup
    \/ ReadBack
    \/ PatchInstanceCount
    \/ Draw
    \/ RenderOverlay
    \/ Present

\* a step of work-item g of the dispatch in flight
WorkItemStep(g) ==
    /\ g \in DOMAIN wi
    /\ (InitCommand(g) \/ TestElement(g) \/ WriteSlot(g))

\* the runs over the Instance Store that has an element outside the
\* frustum between two inside it, so that a dispatch has work-items that
\* return early, work-items that fail the test and work-items that
\* contend for the counter
InitFair ==
    /\ Init
    /\ instances[0] = << 0, 0 >>
    /\ instances[1] = << 2 * ONE, 2 * ONE >>

\* The host thread keeps running while it has a statement to execute, and
\* the device runs every work-item of a dispatch to its end.  Nothing is
\* assumed about the loop condition and the UI block, which wait for the
\* window system.
SpecFair ==
    /\ InitFair
    /\ [][Next]_vars
    /\ WF_vars(HostStep)
    /\ \A g \in GlobalInvocationIDs(MAX_ELEMENTS) : WF_vars(WorkItemStep(g))

(* ------------------------------------------------------------------ *)
(* Properties                                                          *)
(* ------------------------------------------------------------------ *)

\* the dispatch of the current frame has completed and its barrier has been passed
DispatchComplete == pc \in { "render", "readback", "patch", "draw", "overlay", "swap" }

\* the current frame has issued its draw
FrameDrawn == pc \in { "overlay", "swap" }

Abs(x) == IF x < 0 THEN 0 - x ELSE x

\* reference evaluation of the visibility test for element i: |x| <= w and |y| <= w
ReferenceVisible(i) ==
    LET c == ClipPos(projection, instances[i])
    IN  Abs(c[1]) <= c[4] /\ Abs(c[2]) <= c[4]

\* the elements below the active element count that the reference test selects
ReferenceVisibleSet(n) == { i \in Slots : i < n /\ ReferenceVisible(i) }

\* C1: in either culling variant and at every point of every interleaving,
\* the slots returned by the atomic increment to the visible elements of one
\* dispatch are pairwise distinct.
C1_UniqueSlots ==
    \A g \in classified : \A h \in classified :
        g # h => wi[g].index # wi[h].index

\* two visible elements of an instanced dispatch hold their slots at once,
\* neither having written yet, while a third has already been handed one
C1_Witness ==
    /\ pc = "cull"
    /\ program = "cull_instanced_program"
    /\ Cardinality(classified) = 3
    /\ Cardinality({ g \in classified : wi[g].pc = "write" }) >= 2

\* C2: once a culling dispatch has completed, the output slots written
\* during it are exactly [0, finalCount): each slot below the counter value
\* was written once, no slot at or above it was written.
C2_CompactOutput ==
    DispatchComplete =>
        \A s \in Slots : written[s] = IF s < counter_buffer THEN 1 ELSE 0

\* a completed dispatch that skipped an invisible element between two
\* visible ones: slots 0 and 1 written, slot 2 not
C2_Witness ==
    /\ DispatchComplete
    /\ counter_buffer = 2
    /\ classified = { 0, 2 }
    /\ written[0] = 1 /\ written[1] = 1 /\ written[2] = 0

\* C3: after a culling dispatch completes, the element indices recorded in
\* its output are exactly the elements i < active_element_count with
\* |x| <= w and |y| <= w in clip space, and no work-item with index >=
\* active_element_count incremented the counter or wrote a slot.
C3_VisibleSetIsReference ==
    DispatchComplete =>
        /\ OutputIds = ReferenceVisibleSet(element_count)
        /\ \A g \in DOMAIN wi : g >= element_count => g \notin classified

\* C4: after the culling dispatch of a frame the counter equals the number
\* of elements classified visible in that frame, in both variants; and a
\* frame of the other variant run earlier with the same active element
\* count (same element data and projection) ended with the same counter
\* value.
C4_CountConservation ==
    DispatchComplete =>
        /\ counter_buffer = Cardinality(classified)
        /\ (ref # None /\ ref.element_count = element_count /\ ref.mode # current_mode)
              => ref.count = counter_buffer

\* an instanced dispatch completed with two visible elements after a kept
\* micro-batch frame of the same element count
C4_Witness ==
    /\ DispatchComplete
    /\ current_mode = INSTANCED_INDIRECT
    /\ ref # None
    /\ ref.mode = MICRO_BATCH_INDIRECT
    /\ ref.element_count = element_count
    /\ counter_buffer = 2
    /\ Cardinality(classified) = 2

\* the steps the host may take from each position of the frame loop
FrameOrder(mode) ==
    { << "ui", "reset" >>, << "ui", "exit" >>, << "reset", "dispatch" >>,
      << "dispatch", "cull" >>, << "cull", "render" >>,
      << "draw", "overlay" >>, << "overlay", "swap" >>, << "swap", "ui" >> }
    \cup ( IF mode = INSTANCED_INDIRECT
           THEN { << "render", "patch" >>, << "patch", "draw" >> }
           ELSE { << "render", "readback" >>, << "readback", "draw" >> } )

C7_InstancedVertexStage ==
    (FrameDrawn /\ current_mode = INSTANCED_INDIRECT) =>
        /\ UniformValue(uniforms, "render_program", "is_instanced_mode") = 1
        /\ Len(drawn) = Cardinality(classified)
        /\ \A k \in DOMAIN drawn : drawn[k] = visible_id_ssbo[k - 1]
        /\ BagOfSeq(drawn) = [ e \in classified |-> 1 ]

\* C8: a micro-batch frame and an instanced frame of the same run with the
\* same active element count render the same elements up to order,
\* whatever modes the frames before them used.
C8_ModeEquivalence ==
    (pc = "swap" /\ ref # None /\ ref.element_count = element_count
       /\ ref.mode # current_mode)
        => BagOfSeq(drawn) = ref.drawn

\* C9: in every micro-batch frame the multi-draw reads N commands from slot
\* 0, N being the counter read back after the barrier; each is {6, 1, 0, 0,
\* e} for a distinct visible element e, and e is the element the vertex
\* stage draws for it.
C9_MicroBatchDraw ==
    (FrameDrawn /\ current_mode = MICRO_BATCH_INDIRECT) =>
        /\ gpu_draw_calls = counter_buffer
        /\ Len(drawn) = gpu_draw_calls
        /\ \A d \in 0 .. (gpu_draw_calls - 1) :
             LET cmd == CommandAt(command_buffer, d) IN
               /\ cmd.count = QuadIndexCount /\ cmd.instanceCount = 1
               /\ cmd.firstIndex = 0 /\ cmd.baseVertex = 0
               /\ cmd.baseInstance \in classified
               /\ drawn[d + 1] = cmd.baseInstance
               /\ \A e \in 0 .. (gpu_draw_calls - 1) :
                    e # d => CommandAt(command_buffer, e).baseInstance # cmd.baseInstance

\* a micro-batch frame that drew three commands whose element order is not
\* the slot order
C9_Witness ==
    /\ FrameDrawn
    /\ current_mode = MICRO_BATCH_INDIRECT
    /\ gpu_draw_calls = 3
    /\ drawn = << 2, 0, 1 >>

\* C10: a dispatch run with the same active element count as an earlier
\* frame of the run (same element data and projection, counter reset in
\* between) ends with the same counter value and the same set of visible
\* element indices, under every interleaving.
C10_Reproducible ==
    (DispatchComplete /\ ref # None /\ ref.element_count = element_count) =>
        /\ counter_buffer = ref.count
        /\ OutputIds = ref.visible

\* a rerun in the same mode as the kept frame, with three visible elements
\* that took their slots out of index order
C10_Witness ==
    /\ DispatchComplete
    /\ ref # None
    /\ ref.element_count = element_count
    /\ ref.mode = current_mode
    /\ current_mode = INSTANCED_INDIRECT
    /\ counter_buffer = 3
    /\ visible_id_ssbo[0] = 2

\* C11: for every element count the slider yields and every frame of either
\* mode, each slot a work-item writes, the draw count of the multi-draw and
\* the instanceCount of the instanced draw stay within the MAX_ELEMENTS
\* capacity of the buffers; and with element_count = MAX_ELEMENTS and every
\* element inside the frustum the dispatch ends with counter = MAX_ELEMENTS
\* and slot MAX_ELEMENTS - 1 written.
C11_WithinCapacity ==
    /\ \A g \in DOMAIN wi :
          wi[g].pc = "write" => SlotWritten(wi[g].index, g) \in Slots
    /\ pc = "cull" => counter_buffer <= MAX_ELEMENTS
    /\ (pc = "draw" /\ current_mode = MICRO_BATCH_INDIRECT)
          => gpu_draw_calls <= MAX_ELEMENTS
    /\ (pc = "draw" /\ current_mode = INSTANCED_INDIRECT)
          => CommandAt(command_buffer, 0).instanceCount <= MAX_ELEMENTS
    /\ (DispatchComplete /\ element_count = MAX_ELEMENTS
          /\ \A i \in Slots : ReferenceVisible(i))
          => /\ counter_buffer = MAX_ELEMENTS
             /\ written[MAX_ELEMENTS - 1] = 1

\* C12: the number the overlay of a frame shows as "GPU Draw Commands" is
\* the number of draw commands issued in that same frame: the visible
\* count N of the multi-draw in micro-batch mode and 1 in instanced mode,
\* the first frame of the run and the first frame after a mode switch
\* included.
C12_OverlayShowsThisFrame ==
    pc = "swap" =>
        overlay_draw_commands =
            IF current_mode = MICRO_BATCH_INDIRECT THEN counter_buffer ELSE 1

\* C13: if compiling or linking any of the three programs fails, the run
\* ends (the failure reported) without running a frame: no frame is under
\* way while one of the programs is not a linked program.
C13_NoFrameWithInvalidProgram ==
    pc \notin { "create_programs", "ui", "exit" } => linked = Programs

\* the three positions of the scenario of C14, in fixed point: (0,0), (2,2)
\* and (-0.1,0.1)
ScenarioPositions == << <<0, 0>>, <<2 * ONE, 2 * ONE>>, <<-1, 1>> >>

\* C14: with 3 active elements at (0,0), (2,2) and (-0.1,0.1) under the
\* orthographic projection of [-1,1] x [-1,1], a culling dispatch of either
\* variant ends with the visible set {0, 2} and the counter at 2, under
\* every interleaving of the work-items.
C14_ThreeElementScenario ==
    ( /\ DispatchComplete
      /\ element_count = Len(ScenarioPositions)
      /\ \A i \in DOMAIN ScenarioPositions : instances[i - 1] = ScenarioPositions[i] )
        => /\ OutputIds = { 0, 2 }
           /\ counter_buffer = 2

\* C15: a frame run with element_count = 0 dispatches no work-item, ends
\* its culling stage with the counter at 0 and draws nothing in either
\* mode: the multi-draw is issued with 0 commands, and the instanced draw
\* with instanceCount = 0 although no work-item 0 ran in that frame to
\* initialise the shared command.
C15_ZeroElements ==
    /\ (element_count = 0 /\ pc = "cull") => DOMAIN wi = {}
    /\ (element_count = 0 /\ DispatchComplete)
          => /\ DOMAIN wi = {}
             /\ counter_buffer = 0
             /\ "command" \notin fresh
    /\ (element_count = 0 /\ FrameDrawn)
          => /\ drawn = << >>
             /\ current_mode = MICRO_BATCH_INDIRECT => gpu_draw_calls = 0
             /\ current_mode = INSTANCED_INDIRECT
                   => CommandAt(command_buffer, 0).instanceCount = 0

\* an instanced frame with no element has issued its draw on a command
\* whose count field was never initialised, the frame before it having
\* drawn three micro-batch commands
C15_Witness ==
    /\ FrameDrawn
    /\ element_count = 0
    /\ current_mode = INSTANCED_INDIRECT
    /\ CommandAt(command_buffer, 0).instanceCount = 0
    /\ CommandAt(command_buffer, 0).baseInstance # 0
    /\ CommandAt(command_buffer, 2).instanceCount = 1
    /\ drawn = << >>

\* C16: what a frame draws depends only on its mode, its element count,
\* the projection and the Instance Store: a frame draws what an earlier
\* frame of the run with the same mode and element count drew, and the
\* counter, the commands, the visible ids and the mode flag its draw
\* consumes were all written in the frame itself, none left by an earlier
\* frame.
C16_NoCrossFrameState ==
    /\ (pc = "swap" /\ ref # None /\ ref.element_count = element_count
          /\ ref.mode = current_mode)
          => BagOfSeq(drawn) = ref.drawn
    /\ FrameDrawn =>
          /\ "counter" \in fresh
          /\ current_mode = MICRO_BATCH_INDIRECT
                => \A d \in Slots : d < gpu_draw_calls => written[d] = 1
          /\ current_mode = INSTANCED_INDIRECT
                => /\ "command" \in fresh
                   /\ UniformValue(uniforms, "render_program", "is_instanced_mode") # 0
                         => \A k \in Slots :
                              k < CommandAt(command_buffer, 0).instanceCount
                                 => written[k] = 1
          /\ drawn # << >> => "is_instanced_mode" \in fresh

\* the frame is past its dispatch
Dispatched == pc \in { "cull", "render", "readback", "patch", "draw", "overlay", "swap" }

\* C17: within one frame the culling program dispatched, the element count
\* it dispatches and tests with, the buffer bound for its output and the
\* draw path are those of one render mode and one element count, the ones
\* the configuration holds in that frame: a change is picked up by the
\* culling dispatch and the draw of the same frame together.
C17_FrameConsistent ==
    /\ Dispatched =>
          /\ program = CullProgram(current_mode)
          /\ DOMAIN wi = GlobalInvocationIDs(element_count)
          /\ UniformValue(uniforms, program, "total_element_count") = element_count
    /\ pc = "cull" =>
          ssbo_binding1 = IF current_mode = MICRO_BATCH_INDIRECT
                          THEN "command_buffer" ELSE "visible_id_ssbo"
    /\ pc = "readback" => current_mode = MICRO_BATCH_INDIRECT
    /\ pc = "patch" => current_mode = INSTANCED_INDIRECT
    /\ pc = "draw" => ssbo_binding1 = IF current_mode = MICRO_BATCH_INDIRECT
                                      THEN "command_buffer" ELSE "visible_id_ssbo"
    /\ FrameDrawn =>
          Len(drawn) = IF current_mode = MICRO_BATCH_INDIRECT
                       THEN gpu_draw_calls
                       ELSE CommandAt(command_buffer, 0).instanceCount

\* C18: no step of a frame in either mode (the UI block that changes the
\* element count, the counter reset, a work-item of either culler, the
\* instance-count patch, the draw) changes a record of the Instance Store.
C18_InstanceStoreReadOnly == [][instances' = instances]_vars

\* an instanced frame with the element count raised to 3 has run its
\* culler, patch and draw after a micro-batch frame that wrote three
\* commands
C18_Witness ==
    /\ FrameDrawn
    /\ current_mode = INSTANCED_INDIRECT
    /\ element_count = 3
    /\ written[2] = 1
    /\ "command" \in fresh
    /\ CommandAt(command_buffer, 0).instanceCount = 3
    /\ CommandAt(command_buffer, 2).instanceCount = 1

\* C19: under fair scheduling of the work-items every frame that starts is
\* presented; each work-item of its dispatch runs to its end and, once
\* finished, stays finished until the frame is presented; and the counter
\* reset of a frame starts only from the head of the loop, when nothing of
\* an earlier frame is in flight.
C19_FrameTerminates ==
    /\ (pc = "reset") ~> (pc = "ui")
    /\ \A g \in GlobalInvocationIDs(MAX_ELEMENTS) :
          (g \in DOMAIN wi /\ wi[g].pc # "done")
             ~> (g \in DOMAIN wi /\ wi[g].pc = "done")
    /\ [][ /\ \A g \in DOMAIN wi :
                (wi[g].pc = "done" /\ pc' # "ui")
                   => (g \in DOMAIN wi' /\ wi'[g].pc = "done")
           /\ (pc' = "reset" /\ pc # "reset") => (pc = "ui" /\ wi = << >>)
           /\ (pc = "reset" /\ pc' # "reset") => (pc' = "dispatch" /\ wi = << >>)
         ]_vars

\* a frame about to be presented whose dispatch ran four work-items, two
\* of them for visible elements, all finished
C19_Witness ==
    /\ pc = "swap"
    /\ Cardinality(DOMAIN wi) = 4
    /\ \A g \in DOMAIN wi : wi[g].pc = "done"
    /\ classified = { 0, 2 }
    /\ Len(drawn) = 2

====
